---- MODULE Spec2Model ----
(***************************************************************************)
(* HYTOPIA Chess: the room (match) state machine of game.ts, the computer  *)
(* opponent of ai.ts and the event handlers of index.ts.                   *)
(*                                                                         *)
(* The rules library (chess.js) is outside the repository.  It is modelled *)
(* as a fixed finite game: a position is a node of the graph Game plus the *)
(* number of times each node has occurred (for threefold repetition).      *)
(***************************************************************************)
EXTENDS Integers, Sequences, FiniteSets, TLC

None == "none"

Colors == {"w", "b"}
Modes == {"solo", "duo"}
Difficulties == {"easy", "medium", "hard"}

\* Player identities (String(player.id)); "AI" is the sentinel of the computer seat.
Ids == {"p1", "p2", "p3"}
AI == "AI"

-----------------------------------------------------------------------------
(* The position oracle: a finite stand-in for chess.js.                    *)

NoPromo == <<>>

\* A verbose move of the oracle: from, to, promotion, captured, and the node reached.
M(f, t, p, c, d) == [from |-> f, to |-> t, promotion |-> p, captured |-> c, dst |-> d]

\* A node: side to move, in check, insufficient material, fifty-move rule,
\* the pieces on the board by colour, and the legal moves.
N(t, chk, ins, fif, wp, bp, ms) ==
    [turn |-> t, check |-> chk, insufficient |-> ins, fifty |-> fif,
     pieces |-> [w |-> wp, b |-> bp], moves |-> ms]

\* The game from the initial position.
Opening ==
  << \* 1: the initial position
     N("w", FALSE, FALSE, FALSE, <<"k","q","n","p","p">>, <<"k","q","n","p","p">>,
       { M(<<"g","1">>, <<"f","3">>, NoPromo, FALSE, 2),
         M(<<"e","2">>, <<"e","4">>, NoPromo, FALSE, 5) }),
     \* 2..4 and 23: the knights go out and back (a cycle)
     N("b", FALSE, FALSE, FALSE, <<"k","q","n","p","p">>, <<"k","q","n","p","p">>,
       { M(<<"g","8">>, <<"f","6">>, NoPromo, FALSE, 3) }),
     N("w", FALSE, FALSE, FALSE, <<"k","q","n","p","p">>, <<"k","q","n","p","p">>,
       { M(<<"f","3">>, <<"g","1">>, NoPromo, FALSE, 4) }),
     N("b", FALSE, FALSE, FALSE, <<"k","q","n","p","p">>, <<"k","q","n","p","p">>,
       { M(<<"f","6">>, <<"g","8">>, NoPromo, FALSE, 23) }),
     \* 5
     N("b", FALSE, FALSE, FALSE, <<"k","q","n","p","p">>, <<"k","q","n","p","p">>,
       { M(<<"d","7">>, <<"d","5">>, NoPromo, FALSE, 6),
         M(<<"f","7">>, <<"f","6">>, NoPromo, FALSE, 7) }),
     \* 6
     N("w", FALSE, FALSE, FALSE, <<"k","q","n","p","p">>, <<"k","q","n","p","p">>,
       { M(<<"e","4">>, <<"d","5">>, NoPromo, TRUE, 8),
         M(<<"e","4">>, <<"e","5">>, NoPromo, FALSE, 9) }),
     \* 7
     N("w", FALSE, FALSE, FALSE, <<"k","q","n","p","p">>, <<"k","q","n","p","p">>,
       { M(<<"d","1">>, <<"h","5">>, NoPromo, FALSE, 10),
         M(<<"d","2">>, <<"d","4">>, NoPromo, FALSE, 9) }),
     \* 8
     N("b", FALSE, FALSE, FALSE, <<"k","q","n","p","p">>, <<"k","q","n","p">>,
       { M(<<"d","8">>, <<"d","5">>, NoPromo, TRUE, 11),
         M(<<"g","8">>, <<"f","6">>, NoPromo, FALSE, 12) }),
     \* 9
     N("b", FALSE, FALSE, FALSE, <<"k","q","n","p","p">>, <<"k","q","n","p","p">>,
       { M(<<"d","8">>, <<"h","4">>, NoPromo, FALSE, 13),
         M(<<"a","7">>, <<"a","6">>, NoPromo, FALSE, 14) }),
     \* 10: black is checkmated
     N("b", TRUE, FALSE, FALSE, <<"k","q","n","p","p">>, <<"k","q","n","p","p">>, {}),
     \* 11
     N("w", FALSE, FALSE, FALSE, <<"k","q","n","p">>, <<"k","q","n","p">>,
       { M(<<"d","1">>, <<"d","5">>, NoPromo, TRUE, 15),
         M(<<"h","2">>, <<"h","4">>, NoPromo, FALSE, 16) }),
     \* 12
     N("w", TRUE, FALSE, FALSE, <<"k","q","n","p","p">>, <<"k","q","n","p">>,
       { M(<<"e","1">>, <<"d","1">>, NoPromo, TRUE, 15) }),
     \* 13: white is checkmated
     N("w", TRUE, FALSE, FALSE, <<"k","q","n","p","p">>, <<"k","q","n","p","p">>, {}),
     \* 14
     N("w", FALSE, FALSE, FALSE, <<"k","q","n","p","p">>, <<"k","q","n","p","p">>,
       { M(<<"e","7">>, <<"e","8">>, <<"q">>, FALSE, 18),
         M(<<"e","7">>, <<"e","8">>, <<"n">>, FALSE, 19),
         M(<<"h","2">>, <<"h","3">>, NoPromo, FALSE, 20) }),
     \* 15: insufficient material
     N("b", FALSE, TRUE, FALSE, <<"k">>, <<"k","n">>,
       { M(<<"e","8">>, <<"d","8">>, NoPromo, FALSE, 17) }),
     \* 16: black is stalemated
     N("b", FALSE, FALSE, FALSE, <<"k","q","n","p">>, <<"k","p">>, {}),
     \* 17: insufficient material and the fifty-move rule at once
     N("w", FALSE, TRUE, TRUE, <<"k">>, <<"k">>,
       { M(<<"e","1">>, <<"e","2">>, NoPromo, FALSE, 15) }),
     \* 18
     N("b", FALSE, FALSE, FALSE, <<"k","q","q","n","p">>, <<"k","q","n","p","p">>,
       { M(<<"e","8">>, <<"e","7">>, NoPromo, FALSE, 21),
         M(<<"e","8">>, <<"d","8">>, NoPromo, TRUE, 17) }),
     \* 19
     N("b", TRUE, FALSE, FALSE, <<"k","q","n","n","p">>, <<"k","q","n","p","p">>,
       { M(<<"e","8">>, <<"e","7">>, NoPromo, FALSE, 21),
         M(<<"e","8">>, <<"f","8">>, NoPromo, FALSE, 22) }),
     \* 20: the fifty-move rule alone
     N("b", FALSE, FALSE, TRUE, <<"k","q","n","p","p">>, <<"k","q","n","p","p">>,
       { M(<<"e","8">>, <<"e","7">>, NoPromo, FALSE, 21) }),
     \* 21: white is stalemated
     N("w", FALSE, FALSE, FALSE, <<"k","p">>, <<"k","q","n","p","p">>, {}),
     \* 22: white is checkmated and the fifty-move rule holds too
     N("w", TRUE, FALSE, TRUE, <<"k","q","n","p">>, <<"k","q","n","p","p">>, {}),
     \* 23: the knights are back
     N("w", FALSE, FALSE, FALSE, <<"k","q","n","p","p">>, <<"k","q","n","p","p">>,
       { M(<<"g","1">>, <<"f","3">>, NoPromo, FALSE, 2) })
  >>

(* A family of endgames for the search: black (king and two rooks) against  *)
(* white (a lone king).  A node at level 0 has white to move; a node at     *)
(* level n > 0 has two moves, each to a node of a lower level with the      *)
(* other side to move, and every pair of such nodes is the pair of          *)
(* successors of one node.  No piece is taken, so the positions differ in   *)
(* who is to move, in the number of moves and in how the game ends.         *)
(* At level 0 white has 1 .. LeafKinds - 1 moves (each stalemates black) or *)
(* is checkmated.                                                           *)

KRR == <<"k", "r", "r">>
K == <<"k">>

\* The moves of a side in these endgames, to the nodes of dsts in turn.
SideMoves(t, dsts) ==
    LET files == <<"a", "b", "c", "d", "e", "f", "g", "h">>
        r1 == IF t = "w" THEN "3" ELSE "6"
        r2 == IF t = "w" THEN "4" ELSE "5"
    IN  { M(<<files[i], r1>>, <<files[i], r2>>, NoPromo, FALSE, dsts[i])
          : i \in DOMAIN dsts }

\* The pairs (i, j), i <= j, numbered 1, 2, ... in the order (1,1), (1,2),
\* (2,2), (1,3), ...
PairIndex(i, j) == ((j - 1) * j) \div 2 + i
Pairs(n) == (n * (n + 1)) \div 2
PairAt(n, k) ==
    LET j == CHOOSE j \in 1..n : Pairs(j - 1) < k /\ k <= Pairs(j)
    IN  <<k - Pairs(j - 1), j>>

LeafKinds == 3
\* The number of the positions of Opening.
NumOpening == 23
Stalemated == NumOpening + 1
Leaf(k) == Stalemated + k
Level1(k) == Leaf(LeafKinds) + k
Level2(k) == Level1(Pairs(LeafKinds)) + k
Level3(k) == Level2(Pairs(Pairs(LeafKinds))) + k

\* The nodes with white to move that a black move at level 3 can lead to:
\* the leaves and the nodes of level 2.
NumWhiteToMove == LeafKinds + Pairs(Pairs(LeafKinds))
WhiteToMove(i) == IF i <= LeafKinds THEN Leaf(i) ELSE Level2(i - LeafKinds)

NumNodes == Level3(Pairs(NumWhiteToMove))

\* The endgame position numbered n.
Endgame(n) ==
    IF n = Stalemated
      THEN N("b", FALSE, FALSE, FALSE, K, KRR, {})
    ELSE IF n < Leaf(LeafKinds)
      THEN N("w", FALSE, FALSE, FALSE, K, KRR,
             SideMoves("w", [i \in 1..(n - Stalemated) |-> Stalemated]))
    ELSE IF n = Leaf(LeafKinds)
      THEN N("w", TRUE, FALSE, FALSE, K, KRR, {})
    ELSE IF n < Level2(1)
      THEN LET p == PairAt(LeafKinds, n - Leaf(LeafKinds)) IN
           N("b", FALSE, FALSE, FALSE, K, KRR,
             SideMoves("b", <<Leaf(p[1]), Leaf(p[2])>>))
    ELSE IF n < Level3(1)
      THEN LET p == PairAt(Pairs(LeafKinds), n - Level1(Pairs(LeafKinds))) IN
           N("w", FALSE, FALSE, FALSE, K, KRR,
             SideMoves("w", <<Level1(p[1]), Level1(p[2])>>))
    ELSE LET p == PairAt(NumWhiteToMove, n - Level2(Pairs(Pairs(LeafKinds)))) IN
         N("b", FALSE, FALSE, FALSE, K, KRR,
           SideMoves("b", <<WhiteToMove(p[1]), WhiteToMove(p[2])>>))

Nodes == 1..NumNodes

Game == [n \in Nodes |-> IF n <= NumOpening THEN Opening[n] ELSE Endgame(n)]

\* The position numbered n.
Position(n) == Game[n]

InitialNode == 1

\* How often a position must have occurred for isThreefoldRepetition().
Threefold == 3

\* The history of a position just set up: it has occurred once.  The count
\* is kept for the positions that have occurred.
FreshCount(n) == n :> 1

\* new Chess() / chess.reset()
NewChess == [node |-> InitialNode, count |-> FreshCount(InitialNode)]

\* chess.fen(): the position without its history
Fen(c) == c.node

\* new Chess(fen)
LoadFen(fen) == [node |-> fen, count |-> FreshCount(fen)]

Turn(c) == Position(c.node).turn
Moves(c) == Position(c.node).moves
IsCheck(c) == Position(c.node).check
IsCheckmate(c) == IsCheck(c) /\ Moves(c) = {}
IsStalemate(c) == ~IsCheck(c) /\ Moves(c) = {}
IsInsufficientMaterial(c) == Position(c.node).insufficient
IsThreefoldRepetition(c) == c.count[c.node] >= Threefold
IsDraw(c) ==
    \/ Position(c.node).fifty
    \/ IsStalemate(c)
    \/ IsInsufficientMaterial(c)
    \/ IsThreefoldRepetition(c)
IsGameOver(c) == IsCheckmate(c) \/ IsStalemate(c) \/ IsDraw(c)

\* The number of moves made since new Chess() / chess.reset().
RECURSIVE SumOver(_, _)
SumOver(f, S) ==
    IF S = {} THEN 0
    ELSE LET n == CHOOSE k \in S : TRUE IN f[n] + SumOver(f, S \ {n})
Plies(c) == SumOver(c.count, DOMAIN c.count) - 1

\* The legal moves that chess.move({from, to, promotion}) matches: the squares
\* must agree, and the promotion piece when the legal move is a promotion.
Matching(c, from, to, promotion) ==
    {m \in Moves(c) : /\ m.from = from /\ m.to = to
                      /\ (m.promotion = NoPromo \/ m.promotion = promotion)}

\* The position after the legal move m.
Make(c, m) ==
    [node |-> m.dst,
     count |-> IF m.dst \in DOMAIN c.count
                 THEN [c.count EXCEPT ![m.dst] = @ + 1]
                 ELSE c.count @@ (m.dst :> 1)]

\* move.from + move.to + (move.promotion ? move.promotion : "")
MoveString(m) == m.from \o m.to \o m.promotion

-----------------------------------------------------------------------------
(* game.ts: the room, the seats and the match.                             *)

\* uci.slice(a, b) of a string held as a sequence of characters
Slice(s, a, b) == SubSeq(s, a + 1, IF b < Len(s) THEN b ELSE Len(s))

\* An undefined lastMove, and the null of chooseAiMove
NoMove == <<>>

defaultSelection == [mode |-> "solo", difficulty |-> "easy"]

NoSeats == [w |-> None, b |-> None]

createRoom ==
    [selection |-> defaultSelection, seats |-> NoSeats, chess |-> NewChess,
     status |-> "lobby", winner |-> None, endReason |-> None, lastMove |-> NoMove]

\* A bug: the seats are never searched for the player.
seatedAs_Never(room, playerId) == None

\* "If already seated, return existing.": the colour of the player's seat, or None
seatedAs(room, playerId) ==
    IF room.seats.w = playerId THEN "w"
    ELSE IF room.seats.b = playerId THEN "b"
    ELSE None

\* A bug: the computer is not seated with the human.
soloSeats_HumanOnly(playerId) == [w |-> playerId, b |-> None]

\* "Player is always white": the seats of a solo room
soloSeats(playerId) == [w |-> playerId, b |-> AI]

\* A bug: the black seat is given away again when both seats are taken.
freeSeat_BlackReusable(room) == IF room.seats.w = None THEN "w" ELSE "b"

\* "Duo: first is white, second is black.": the seat a newcomer gets, or None
freeSeat(room) ==
    IF room.seats.w = None THEN "w"
    ELSE IF room.seats.b = None THEN "b"
    ELSE None

\* assignSeat(room, playerId): the room afterwards and the value returned
assignSeat(room, playerId) ==
    IF seatedAs(room, playerId) # None
      THEN [room |-> room, ok |-> TRUE, color |-> seatedAs(room, playerId),
            reason |-> None]
    ELSE IF room.selection.mode = "solo"
      THEN IF room.seats.w # None /\ room.seats.w # playerId
             THEN [room |-> room, ok |-> FALSE, color |-> None,
                   reason |-> "Room already has a solo player."]
             ELSE [room |-> [room EXCEPT !.seats = soloSeats(playerId)],
                   ok |-> TRUE, color |-> "w", reason |-> None]
    ELSE IF freeSeat(room) # None
      THEN [room |-> [room EXCEPT !.seats[freeSeat(room)] = playerId],
            ok |-> TRUE, color |-> freeSeat(room), reason |-> None]
    ELSE [room |-> room, ok |-> FALSE, color |-> None, reason |-> "Room full"]

\* A bug: the seats are cleared only when the mode is provided.
setLobbySelection_SeatsKeptWithoutMode(room, mode, difficulty) ==
    IF room.status # "lobby" THEN room
    ELSE [room EXCEPT
            !.selection.mode = IF mode # None THEN mode ELSE @,
            !.selection.difficulty = IF difficulty # None THEN difficulty ELSE @,
            !.seats = IF mode # None THEN NoSeats ELSE @]

\* setLobbySelection(room, {mode, difficulty}); None is an absent field
setLobbySelection(room, mode, difficulty) ==
    IF room.status # "lobby" THEN room
    ELSE [room EXCEPT
            !.selection.mode = IF mode # None THEN mode ELSE @,
            !.selection.difficulty = IF difficulty # None THEN difficulty ELSE @,
            !.seats = NoSeats]

\* A bug: the seats are not tested.
canStart_SeatsUntested(room) == room.status = "lobby"

canStart(room) ==
    IF room.status # "lobby" THEN FALSE
    ELSE IF room.selection.mode = "solo" THEN room.seats.w # None
    ELSE room.seats.w # None /\ room.seats.b # None

startGame(room) ==
    [room EXCEPT !.chess = NewChess, !.status = "playing", !.winner = None,
                 !.endReason = None, !.lastMove = NoMove]

Other(color) == IF color = "w" THEN "b" ELSE "w"

\* A bug: the generic draw is tested before the kinds of draw.
finalize_DrawFirst(room, over, checkmate, stalemate, insufficient, threefold, draw, turn) ==
    IF ~over THEN room
    ELSE IF checkmate
      THEN [room EXCEPT !.status = "ended", !.winner = Other(turn),
                        !.endReason = "checkmate"]
    ELSE IF draw
      THEN [room EXCEPT !.status = "ended", !.endReason = "draw"]
    ELSE [room EXCEPT !.status = "ended"]

\* A bug: the side that delivered stalemate is declared the winner.
finalize_StalemateWins(room, over, checkmate, stalemate, insufficient, threefold, draw, turn) ==
    IF ~over THEN room
    ELSE IF checkmate \/ stalemate
      THEN [room EXCEPT !.status = "ended", !.winner = Other(turn),
                        !.endReason = IF checkmate THEN "checkmate" ELSE "stalemate"]
    ELSE IF insufficient
      THEN [room EXCEPT !.status = "ended", !.endReason = "insufficient material"]
    ELSE IF threefold
      THEN [room EXCEPT !.status = "ended", !.endReason = "threefold repetition"]
    ELSE IF draw
      THEN [room EXCEPT !.status = "ended", !.endReason = "draw"]
    ELSE [room EXCEPT !.status = "ended"]

\* maybeFinalize on the oracle's answers for the room's position
finalize(room, over, checkmate, stalemate, insufficient, threefold, draw, turn) ==
    IF ~over THEN room
    ELSE IF checkmate
      THEN [room EXCEPT !.status = "ended", !.winner = Other(turn),
                        !.endReason = "checkmate"]
    ELSE IF stalemate
      THEN [room EXCEPT !.status = "ended", !.endReason = "stalemate"]
    ELSE IF insufficient
      THEN [room EXCEPT !.status = "ended", !.endReason = "insufficient material"]
    ELSE IF threefold
      THEN [room EXCEPT !.status = "ended", !.endReason = "threefold repetition"]
    ELSE IF draw
      THEN [room EXCEPT !.status = "ended", !.endReason = "draw"]
    ELSE [room EXCEPT !.status = "ended"]

\* A bug: only checkmate ends the match.
maybeFinalize_CheckmateOnly(room) ==
    LET c == room.chess IN
    finalize(room, IsCheckmate(c), IsCheckmate(c), FALSE, FALSE, FALSE, FALSE, Turn(c))

maybeFinalize(room) ==
    LET c == room.chess IN
    finalize(room, IsGameOver(c), IsCheckmate(c), IsStalemate(c),
             IsInsufficientMaterial(c), IsThreefoldRepetition(c), IsDraw(c), Turn(c))

-----------------------------------------------------------------------------
(* ai.ts: the computer opponent.                                           *)

PIECE_VALUES ==
    [p |-> 100, n |-> 320, b |-> 330, r |-> 500, q |-> 900, k |-> 0]

RECURSIVE SumValues(_)
SumValues(ps) ==
    IF ps = <<>> THEN 0 ELSE PIECE_VALUES[Head(ps)] + SumValues(Tail(ps))

\* evaluate(chess, forColor): material, then mobility of the side to move
evaluate(c, forColor) ==
    LET pieces == Position(c.node).pieces
        material == SumValues(pieces[forColor]) - SumValues(pieces[Other(forColor)])
        moves == Cardinality(Moves(c))
    IN  material + (IF Turn(c) = forColor THEN moves ELSE -moves)

Infinity == 1000000000
MateScore == 100000

\* Every order moves.sort(() => Math.random() - 0.5) can leave the moves in.
RECURSIVE Orders(_)
Orders(S) ==
    IF S = {} THEN {<<>>}
    ELSE UNION {{<<m>> \o rest : rest \in Orders(S \ {m})} : m \in S}

Max(a, b) == IF a > b THEN a ELSE b
Min(a, b) == IF a < b THEN a ELSE b

\* A bug: the search of a node stops one point before the bounds meet.
cutoff_OneEarly(alpha, beta) == beta <= alpha + 1

\* if (beta <= alpha) break
cutoff(alpha, beta) == beta <= alpha

\* The value minimax returns at a leaf (depth 0 or game over).
leafScore(c, maximizingFor) ==
    IF IsCheckmate(c)
      THEN (IF Other(Turn(c)) = maximizingFor THEN MateScore ELSE -MateScore)
    ELSE IF IsDraw(c) \/ IsStalemate(c) \/ IsThreefoldRepetition(c)
            \/ IsInsufficientMaterial(c)
      THEN 0
    ELSE evaluate(c, maximizingFor)

\* The set of {score, move} that minimax can return over all move orders.
\* searchLoop runs the for-loop over the moves still to try.
RECURSIVE minimax(_, _, _, _, _), searchLoop(_, _, _, _, _, _, _, _)
minimax(c, depth, alpha, beta, maximizingFor) ==
    IF depth = 0 \/ IsGameOver(c)
      THEN {[score |-> leafScore(c, maximizingFor), move |-> NoMove]}
      ELSE LET isMax == Turn(c) = maximizingFor IN
           UNION { searchLoop(c, order, depth, alpha, beta, maximizingFor,
                              IF isMax THEN -Infinity ELSE Infinity, NoMove)
                   : order \in Orders(Moves(c)) }

searchLoop(c, todo, depth, alpha, beta, maximizingFor, bestScore, bestMove) ==
    IF todo = <<>> THEN {[score |-> bestScore, move |-> bestMove]}
    ELSE
      LET m == Head(todo)
          isMax == Turn(c) = maximizingFor
          step(score) ==
            IF isMax
              THEN LET better == score > bestScore
                       bs == IF better THEN score ELSE bestScore
                       bm == IF better THEN MoveString(m) ELSE bestMove
                       a == Max(alpha, bs)
                   IN  IF cutoff(a, beta) THEN {[score |-> bs, move |-> bm]}
                       ELSE searchLoop(c, Tail(todo), depth, a, beta,
                                       maximizingFor, bs, bm)
              ELSE LET better == score < bestScore
                       bs == IF better THEN score ELSE bestScore
                       bm == IF better THEN MoveString(m) ELSE bestMove
                       b == Min(beta, bs)
                   IN  IF cutoff(alpha, b) THEN {[score |-> bs, move |-> bm]}
                       ELSE searchLoop(c, Tail(todo), depth, alpha, b,
                                       maximizingFor, bs, bm)
      IN  UNION { step(r.score) :
                  r \in minimax(Make(c, m), depth - 1, alpha, beta, maximizingFor) }

searchDepth(difficulty) ==
    IF difficulty = "easy" THEN 1 ELSE IF difficulty = "medium" THEN 2 ELSE 3

\* A bug: the side to move is not compared with the computer's colour.
notToMove_Untested(c, aiColor) == FALSE

\* if (chess.turn() !== aiColor) return null
notToMove(c, aiColor) == Turn(c) # aiColor

\* A bug: the captures are not preferred.
easyChoices_AnyMove(moves) == moves

\* "Easy: prefer captures if available, else random.": the moves pickRandom
\* is given
easyChoices(moves) ==
    LET captures == {m \in moves : m.captured}
    IN  IF captures # {} THEN captures ELSE moves

\* chooseAiMove(fen, aiColor, difficulty): every move string it can return
\* (NoMove for null).
chooseAiMove(fen, aiColor, difficulty) ==
    LET c == LoadFen(fen) IN
    IF IsGameOver(c) THEN {NoMove}
    ELSE IF notToMove(c, aiColor) THEN {NoMove}
    ELSE IF difficulty = "easy"
      THEN {MoveString(m) : m \in easyChoices(Moves(c))}
    ELSE {r.move : r \in minimax(c, searchDepth(difficulty), -Infinity, Infinity, aiColor)}

-----------------------------------------------------------------------------
(* ai.ts: the search on the Chess object it is given.  minimax explores a   *)
(* move with chess.move(m) and takes it back with chess.undo(); the object  *)
(* is the position and the stack of the positions the moves were made from. *)

\* new Chess(fen) in chooseAiMove: the object the search is given
searchObject(fen) == [position |-> LoadFen(fen), history |-> <<>>]

\* chess.move(m): the move is made when it is a legal move of the position
chessMove(o, m) ==
    IF m \in Moves(o.position)
      THEN [position |-> Make(o.position, m),
            history |-> Append(o.history, o.position)]
      ELSE o

\* chess.undo(): back to the position the last move was made from
chessUndo(o) ==
    IF o.history = <<>> THEN o
    ELSE [position |-> o.history[Len(o.history)],
          history |-> SubSeq(o.history, 1, Len(o.history) - 1)]

\* A bug: the move explored is not taken back.
takenBack_Skipped(o) == o

\* chess.undo() after the recursive call: the move explored is taken back
takenBack(o) == chessUndo(o)

\* minimax with the object threaded through it: every {score, move} it can
\* return over all move orders, each with the object as the call leaves it.
RECURSIVE minimaxOn(_, _, _, _, _), searchLoopOn(_, _, _, _, _, _, _, _, _)
minimaxOn(o, depth, alpha, beta, maximizingFor) ==
    LET c == o.position IN
    IF depth = 0 \/ IsGameOver(c)
      THEN {[score |-> leafScore(c, maximizingFor), move |-> NoMove, chess |-> o]}
      ELSE LET isMax == Turn(c) = maximizingFor IN
           UNION { searchLoopOn(o, order, depth, alpha, beta, maximizingFor, isMax,
                                IF isMax THEN -Infinity ELSE Infinity, NoMove)
                   : order \in Orders(Moves(c)) }

\* The for-loop over the moves still to try, on the object as the moves tried
\* before have left it.
searchLoopOn(o, todo, depth, alpha, beta, maximizingFor, isMax, bestScore, bestMove) ==
    IF todo = <<>> THEN {[score |-> bestScore, move |-> bestMove, chess |-> o]}
    ELSE
      LET m == Head(todo)
          step(r) ==
            LET score == r.score
                undone == takenBack(r.chess)
            IN
            IF isMax
              THEN LET better == score > bestScore
                       bs == IF better THEN score ELSE bestScore
                       bm == IF better THEN MoveString(m) ELSE bestMove
                       a == Max(alpha, bs)
                   IN  IF cutoff(a, beta)
                         THEN {[score |-> bs, move |-> bm, chess |-> undone]}
                         ELSE searchLoopOn(undone, Tail(todo), depth, a, beta,
                                           maximizingFor, isMax, bs, bm)
              ELSE LET better == score < bestScore
                       bs == IF better THEN score ELSE bestScore
                       bm == IF better THEN MoveString(m) ELSE bestMove
                       b == Min(beta, bs)
                   IN  IF cutoff(alpha, b)
                         THEN {[score |-> bs, move |-> bm, chess |-> undone]}
                         ELSE searchLoopOn(undone, Tail(todo), depth, alpha, b,
                                           maximizingFor, isMax, bs, bm)
      IN  UNION { step(r) :
                  r \in minimaxOn(chessMove(o, m), depth - 1, alpha, beta, maximizingFor) }

-----------------------------------------------------------------------------
(* game.ts: applyMove.                                                     *)

\* A bug: the computer never replies.
aiReply_Skipped(room) == {room}

\* The computer's reply in solo mode: every room the reply can leave.
aiReply(room) ==
    { IF aiMove = NoMove THEN room
      ELSE LET moved == Matching(room.chess, Slice(aiMove, 0, 2), Slice(aiMove, 2, 4),
                                 Slice(aiMove, 4, 5))
           IN  IF moved = {} THEN room
               ELSE LET mv == CHOOSE m \in moved : TRUE IN
                    maybeFinalize([room EXCEPT !.chess = Make(room.chess, mv),
                                               !.lastMove = MoveString(mv)])
      : aiMove \in chooseAiMove(Fen(room.chess), "b", room.selection.difficulty) }

\* A bug: a rejected move still clears the last move.
rejected_ClearsLastMove(room, reason) ==
    [room |-> [room EXCEPT !.lastMove = NoMove], ok |-> FALSE, reason |-> reason]

\* return { ok: false, reason }: the room is as it was
rejected(room, reason) == [room |-> room, ok |-> FALSE, reason |-> reason]

\* A bug: the seat of the side to move is not compared with the caller.
notYourTurn_Never(room, playerId) == FALSE

\* !seat || seat.playerId !== playerId, for the seat of the side to move
notYourTurn(room, playerId) ==
    LET seat == room.seats[Turn(room.chess)] IN seat = None \/ seat # playerId

\* A bug: the status is not tested before the computer replies.
aiToRespond_AnyStatus(room) == room.selection.mode = "solo"

\* "If solo mode and game not over, let AI respond."
aiToRespond(room) == room.selection.mode = "solo" /\ room.status = "playing"

\* applyMove(room, playerId, uci): every outcome {room afterwards, ok, reason}
applyMove(room, playerId, uci) ==
    IF room.status # "playing"
      THEN {rejected(room, "Not playing")}
    ELSE
      LET from == Slice(uci, 0, 2)
          to == Slice(uci, 2, 4)
          promotion == Slice(uci, 4, 5)
          move == Matching(room.chess, from, to, promotion)
      IN
      IF notYourTurn(room, playerId)
        THEN {rejected(room, "Not your turn")}
      ELSE IF move = {}
        THEN {rejected(room, "Illegal move")}
      ELSE
        LET mv == CHOOSE m \in move : TRUE
            r1 == maybeFinalize([room EXCEPT !.chess = Make(room.chess, mv),
                                             !.lastMove = MoveString(mv)])
        IN  IF aiToRespond(r1)
              THEN {[room |-> r2, ok |-> TRUE, reason |-> None] : r2 \in aiReply(r1)}
              ELSE {[room |-> r1, ok |-> TRUE, reason |-> None]}

-----------------------------------------------------------------------------
(* index.ts: the server's state and its event handlers.                    *)

VARIABLES
    room,      \* the ChessRoom
    players,   \* the players Map: the connected identities, in insertion order
    colors,    \* the colors Map: identity -> colour (None: no entry)
    last       \* the last event handled: its kind, its sender, what was reported

vars == <<room, players, colors, last>>

NoColors == [p \in Ids |-> None]

Range(s) == {s[i] : i \in DOMAIN s}

\* broadcastState: the colour a player's snapshot is built for,
\* colors.get(playerId) ?? "w"
viewerColor(cs, p) == IF cs[p] = None THEN "w" ELSE cs[p]

\* players.delete(playerId)
RECURSIVE Without(_, _)
Without(s, p) ==
    IF s = <<>> THEN <<>>
    ELSE IF Head(s) = p THEN Without(Tail(s), p)
    ELSE <<Head(s)>> \o Without(Tail(s), p)

\* What a handler reported: the result of the call it made, or the toast it sent.
Result(ok, color, reason) == [ok |-> ok, color |-> color, reason |-> reason]
NoResult == Result(TRUE, None, None)
\* The handler returned without acting on the message.
Ignored == Result(FALSE, None, None)

Event(op, res) == [op |-> op, res |-> res]

\* for (const [pid] of players.entries()) { assignSeat; colors.set }
RECURSIVE reseat(_, _, _)
reseat(r, cs, todo) ==
    IF todo = <<>> THEN [room |-> r, colors |-> cs]
    ELSE LET seat == assignSeat(r, Head(todo)) IN
         reseat(seat.room,
                IF seat.ok /\ seat.color # None
                  THEN [cs EXCEPT ![Head(todo)] = seat.color] ELSE cs,
                Tail(todo))

\* A bug: the room is created anew, its selection back to the default.
resetToLobby_Recreated(r) == createRoom

resetToLobby(r) ==
    [r EXCEPT !.status = "lobby", !.winner = None, !.endReason = None,
              !.lastMove = NoMove, !.chess = NewChess, !.seats = NoSeats]

Init ==
    /\ room = createRoom
    /\ players = <<>>
    /\ colors = NoColors
    /\ last = Event("boot", NoResult)

\* PlayerEvent.JOINED_WORLD
Join(p) ==
    /\ p \notin Range(players)
    /\ players' = Append(players, p)
    /\ IF room.status = "lobby"
         THEN LET seat == assignSeat(room, p) IN
              /\ room' = seat.room
              /\ colors' = IF seat.ok /\ seat.color # None
                             THEN [colors EXCEPT ![p] = seat.color] ELSE colors
              /\ last' = Event("join",
                               Result(seat.ok, seat.color,
                                      IF seat.ok THEN None ELSE seat.reason))
         ELSE /\ UNCHANGED <<room, colors>>
              /\ last' = Event("join", NoResult)

\* A bug: a player leaving a duo room ends the match in any status.
disconnectEnds_AnyStatus(r) == r.selection.mode = "duo"

\* "If duo and someone leaves during a game, end"
disconnectEnds(r) == r.selection.mode = "duo" /\ r.status = "playing"

\* A bug: the side that was not to move is declared the winner.
disconnected_OpponentWins(r) ==
    [r EXCEPT !.status = "ended", !.winner = Other(Turn(r.chess)),
              !.endReason = "opponent disconnected"]

\* status = "ended"; winner = undefined; endReason = "opponent disconnected"
disconnected(r) ==
    [r EXCEPT !.status = "ended", !.winner = None,
              !.endReason = "opponent disconnected"]

\* PlayerEvent.LEFT_WORLD
Leave(p) ==
    /\ p \in Range(players)
    /\ LET ps == Without(players, p)
           cs == [colors EXCEPT ![p] = None]
           r1 == IF disconnectEnds(room) THEN disconnected(room) ELSE room
           reset == r1.selection.mode = "solo" /\ Len(ps) = 0
       IN  /\ players' = ps
           /\ room' = IF reset THEN resetToLobby(r1) ELSE r1
           /\ colors' = IF reset THEN NoColors ELSE cs
    /\ last' = Event("leave", NoResult)

\* ui.action lobby.set
LobbySet(p, mode, difficulty) ==
    /\ p \in Range(players)
    /\ IF room.status = "lobby"
         THEN LET r1 == setLobbySelection(room, mode, difficulty)
                  re == reseat([r1 EXCEPT !.seats = NoSeats], NoColors, players)
              IN  /\ room' = re.room
                  /\ colors' = re.colors
                  /\ last' = Event("lobby.set", NoResult)
         ELSE /\ UNCHANGED <<room, colors>>
              /\ last' = Event("lobby.set", Ignored)
    /\ UNCHANGED players

\* A bug: any player may start a duo match.
notWhite_Never(r, cs, p) == FALSE

\* "In duo mode, only allow white to start (keeps simple)"
notWhite(r, cs, p) == r.selection.mode = "duo" /\ cs[p] # "w"

\* ui.action lobby.start
LobbyStart(p) ==
    /\ p \in Range(players)
    /\ UNCHANGED <<players, colors>>
    /\ IF room.status # "lobby"
         THEN UNCHANGED room /\ last' = Event("lobby.start", Ignored)
       ELSE IF notWhite(room, colors, p)
         THEN /\ UNCHANGED room
              /\ last' = Event("lobby.start",
                               Result(FALSE, None, "Only White can start the match."))
       ELSE IF ~canStart(room)
         THEN /\ UNCHANGED room
              /\ last' = Event("lobby.start",
                               Result(FALSE, None,
                                      IF room.selection.mode = "duo"
                                        THEN "Waiting for opponent"
                                        ELSE "Ready when you are"))
       ELSE /\ room' = startGame(room)
            /\ last' = Event("lobby.start", Result(TRUE, None, "Game start"))

\* ui.action game.move
GameMove(p, uci) ==
    /\ p \in Range(players)
    /\ UNCHANGED <<players, colors>>
    /\ IF room.status # "playing" \/ uci = <<>> \/ Len(uci) < 4
         THEN UNCHANGED room /\ last' = Event("game.move", Ignored)
         ELSE \E res \in applyMove(room, p, uci) :
                /\ room' = res.room
                /\ last' = Event("game.move", Result(res.ok, None, res.reason))

\* ui.action end.rematch
Rematch(p) ==
    /\ p \in Range(players)
    /\ LET r1 == [room EXCEPT !.status = "lobby", !.chess = NewChess,
                              !.winner = None, !.endReason = None,
                              !.lastMove = NoMove, !.seats = NoSeats]
           re == reseat(r1, NoColors, players)
       IN  /\ room' = IF canStart(re.room) THEN startGame(re.room) ELSE re.room
           /\ colors' = re.colors
    /\ last' = Event("end.rematch", NoResult)
    /\ UNCHANGED players

\* ui.action end.backToLobby
BackToLobby(p) ==
    /\ p \in Range(players)
    /\ room' = resetToLobby(room)
    /\ colors' = NoColors
    /\ last' = Event("end.backToLobby", NoResult)
    /\ UNCHANGED players

\* The move strings a client sends: the legal moves of the position, and some that
\* are not legal, too short, or with text after the promotion letter.
Ucis(c) ==
    {MoveString(m) : m \in Moves(c)}
    \cup { <<"a","1","a","2">>, <<"e","2">>, <<"e","2","e","4","q">>,
           <<"e","7","e","8">>, <<"e","7","e","8","q","x">> }

Next ==
    \/ \E p \in Ids : Join(p)
    \/ \E p \in Ids : Leave(p)
    \/ \E p \in Ids, mode \in Modes \cup {None}, difficulty \in Difficulties \cup {None} :
         LobbySet(p, mode, difficulty)
    \/ \E p \in Ids : LobbyStart(p)
    \/ \E p \in Ids, uci \in Ucis(room.chess) : GameMove(p, uci)
    \/ \E p \in Ids : Rematch(p)
    \/ \E p \in Ids : BackToLobby(p)

Spec == Init /\ [][Next]_vars

-----------------------------------------------------------------------------
(* The computer's choice of move, at every position of the game graph:     *)
(* a solo match of p1 whose position has been set up, as applyMove has it  *)
(* when the human's move has been made and checked for the end of the      *)
(* game.  The computer replies where it is black's move.                   *)

SearchInit ==
    /\ \E n \in Nodes, d \in Difficulties :
         room = maybeFinalize([createRoom EXCEPT !.selection.difficulty = d,
                                                 !.seats = soloSeats("p1"),
                                                 !.chess = LoadFen(n),
                                                 !.status = "playing"])
    /\ players = <<"p1">>
    /\ colors = [NoColors EXCEPT !["p1"] = "w"]
    /\ last = Event("boot", NoResult)

\* applyMove from "If solo mode and game not over, let AI respond." on
Reply ==
    /\ aiToRespond(room) /\ Turn(room.chess) = "b"
    /\ room' \in aiReply(room)
    /\ last' = Event("game.move", Result(TRUE, None, None))
    /\ UNCHANGED <<players, colors>>

SearchNext == Reply

SearchSpec == SearchInit /\ [][SearchNext]_vars

-----------------------------------------------------------------------------
(* Properties.                                                             *)

\* Terminal position: checkmate, stalemate or any draw.
Terminal(c) ==
    \/ IsCheckmate(c)
    \/ IsStalemate(c)
    \/ IsInsufficientMaterial(c)
    \/ IsThreefoldRepetition(c)
    \/ IsDraw(c)

\* The seats the mode requires are occupied.
SeatsFilled(r) ==
    IF r.selection.mode = "solo" THEN r.seats.w # None
    ELSE r.seats.w # None /\ r.seats.b # None

\* A playing match is replaced by a freshly started one.
Restarted ==
    /\ room.status = "playing" /\ room'.status = "playing"
    /\ room.chess # NewChess /\ room'.chess = NewChess

\* C1 as amended: the status changes only along lobby->playing,
\* playing->ended, ended->lobby, ended->playing and playing->lobby (never
\* lobby->ended); playing->lobby is taken only when the last player leaves a
\* solo room or on end.backToLobby or end.rematch, and a playing match is
\* replaced by a freshly started one only on end.rematch.
C1_Transitions ==
    [][ /\ room.status # room'.status
          => <<room.status, room'.status>> \in
               { <<"lobby", "playing">>, <<"playing", "ended">>,
                 <<"ended", "lobby">>, <<"ended", "playing">>,
                 <<"playing", "lobby">> }
        /\ (room.status = "playing" /\ room'.status = "lobby")
          => \/ last'.op \in {"end.backToLobby", "end.rematch"}
             \/ /\ last'.op = "leave"
                /\ room.selection.mode = "solo" /\ players' = <<>>
        /\ Restarted => last'.op = "end.rematch"
      ]_vars

\* An end.rematch request started a new game.
C1_Witness ==
    /\ room.status = "playing" /\ room.chess = NewChess
    /\ last.op = "end.rematch"
    /\ room.selection.mode = "duo"

\* C1: the status changes only along lobby->playing, playing->ended,
\* ended->lobby and ended->playing, and a playing match is never replaced by a
\* freshly started one.
C1_OnlyLegalTransitions ==
    [][ /\ room.status # room'.status
          => <<room.status, room'.status>> \in
               { <<"lobby", "playing">>, <<"playing", "ended">>,
                 <<"ended", "lobby">>, <<"ended", "playing">> }
        /\ ~Restarted
      ]_vars

\* C2: while the status is playing the seats the mode requires are occupied
\* and the position is not terminal.
C2_PlayingInvariant ==
    room.status = "playing" => SeatsFilled(room) /\ ~Terminal(room.chess)

C2_Witness ==
    /\ room.status = "playing"
    /\ last.op = "game.move" /\ last.res.ok
    /\ room.lastMove # NoMove

\* C3: the side to move is white after an even number of applied moves and
\* black after an odd number, and applyMove by an identity that does not hold
\* the seat of the side to move returns "Not your turn" and leaves the room
\* (position and lastMove included) as it was.
C3_TurnEnforced ==
    /\ room.status \in {"playing", "ended"}
         => Turn(room.chess) = (IF Plies(room.chess) % 2 = 0 THEN "w" ELSE "b")
    /\ room.status = "playing"
         => \A p \in Ids \cup {AI}, uci \in Ucis(room.chess) :
              room.seats[Turn(room.chess)] # p
                => applyMove(room, p, uci)
                     = {[room |-> room, ok |-> FALSE, reason |-> "Not your turn"]}

C3_Witness ==
    /\ room.status = "playing"
    /\ last.op = "game.move" /\ last.res.reason = "Not your turn"
    /\ Plies(room.chess) >= 2

\* C4: in solo mode the side to move of a playing match is white between
\* actions, and an accepted human move either ends the match on the spot or is
\* followed by exactly one computer move within the same step.
C4_SoloReply ==
    /\ [](room.selection.mode = "solo" /\ room.status = "playing"
            => Turn(room.chess) = "w")
    /\ [][ ( /\ room.selection.mode = "solo" /\ room.status = "playing"
             /\ last'.op = "game.move" /\ last'.res.ok )
           => \/ Plies(room'.chess) = Plies(room.chess) + 2
              \/ /\ Plies(room'.chess) = Plies(room.chess) + 1
                 /\ room'.status = "ended"
                 /\ Terminal(room'.chess)
         ]_vars

C4_Witness ==
    /\ room.selection.mode = "solo" /\ room.status = "playing"
    /\ last.op = "game.move" /\ last.res.ok
    /\ Plies(room.chess) >= 2 /\ Turn(room.chess) = "w"

\* C5: in solo mode, when the human's move makes the position terminal, every
\* outcome of applyMove is the ended match with the position right after the
\* human's move and lastMove the human's move: the computer does not reply.
C5_NoReplyAfterTerminal ==
    (room.selection.mode = "solo" /\ room.status = "playing")
      => \A uci \in Ucis(room.chess) :
           \A mv \in Matching(room.chess, Slice(uci, 0, 2), Slice(uci, 2, 4),
                              Slice(uci, 4, 5)) :
             Terminal(Make(room.chess, mv))
               => \A o \in applyMove(room, room.seats.w, uci) :
                    /\ o.ok
                    /\ o.room.status = "ended"
                    /\ o.room.chess = Make(room.chess, mv)
                    /\ o.room.lastMove = MoveString(mv)

\* The human ended a solo match by repetition: the engine, which does not see
\* the history, would still have had a reply.
C5_Witness ==
    /\ room.selection.mode = "solo" /\ room.status = "ended"
    /\ last.op = "game.move" /\ last.res.ok
    /\ room.endReason = "threefold repetition"
    /\ Turn(room.chess) = "b"
    /\ chooseAiMove(Fen(room.chess), "b", room.selection.difficulty) # {NoMove}

\* What the finalize table gives for the oracle's answers: the room r with the
\* outcome of the first kind that applies, in the order checkmate, stalemate,
\* insufficient material, threefold repetition, other draw.
Classified(r, checkmate, stalemate, insufficient, threefold, draw, turn) ==
    LET ended(winner, reason) ==
          [r EXCEPT !.status = "ended", !.winner = winner, !.endReason = reason]
    IN  IF checkmate THEN ended(Other(turn), "checkmate")
        ELSE IF stalemate THEN ended(None, "stalemate")
        ELSE IF insufficient THEN ended(None, "insufficient material")
        ELSE IF threefold THEN ended(None, "threefold repetition")
        ELSE IF draw THEN ended(None, "draw")
        ELSE r

\* C6: for every combination of answers the oracle can give (in check or not,
\* moves left or not, insufficient material, threefold repetition, fifty-move
\* rule, either side to move), maybeFinalize on a playing room gives the room
\* of the finalize table.
C6_FinalizePriority ==
    room.status = "playing"
      => \A check, noMoves, insufficient, threefold, fifty \in BOOLEAN, turn \in Colors :
           LET checkmate == check /\ noMoves
               stalemate == ~check /\ noMoves
               draw == fifty \/ stalemate \/ insufficient \/ threefold
               over == checkmate \/ stalemate \/ draw
           IN  finalize(room, over, checkmate, stalemate, insufficient, threefold,
                        draw, turn)
                 = Classified(room, checkmate, stalemate, insufficient, threefold,
                              draw, turn)

\* A match ended on a position that is a draw by insufficient material and by
\* the fifty-move rule at once.
C6_Witness ==
    /\ room.status = "ended"
    /\ last.op = "game.move" /\ last.res.ok
    /\ IsInsufficientMaterial(room.chess) /\ Game[room.chess.node].fifty
    /\ room.endReason = "insufficient material" /\ room.winner = None

\* C7: applyMove outside playing returns "Not playing", an illegal move by the
\* player to move returns "Illegal move", and every failing applyMove leaves the
\* room as it was.
C7_FailedMoveChangesNothing ==
    \A p \in Ids \cup {AI}, uci \in Ucis(room.chess) :
      /\ room.status # "playing"
           => applyMove(room, p, uci)
                = {[room |-> room, ok |-> FALSE, reason |-> "Not playing"]}
      /\ ( /\ room.status = "playing"
           /\ room.seats[Turn(room.chess)] = p
           /\ Matching(room.chess, Slice(uci, 0, 2), Slice(uci, 2, 4),
                       Slice(uci, 4, 5)) = {} )
           => applyMove(room, p, uci)
                = {[room |-> room, ok |-> FALSE, reason |-> "Illegal move"]}
      /\ \A o \in applyMove(room, p, uci) : ~o.ok => o.room = room

C7_Witness ==
    /\ room.selection.mode = "solo" /\ room.status = "playing"
    /\ last.op = "game.move" /\ last.res.reason = "Illegal move"
    /\ Plies(room.chess) >= 2

\* The room startGame is to leave.
Started(r) ==
    [r EXCEPT !.status = "playing", !.chess = NewChess, !.winner = None,
              !.endReason = None, !.lastMove = NoMove]

\* C8 as stated: startGame called anywhere but in a lobby with the required
\* seats occupied fails and leaves the room as it was.
C8_StartGameGuarded ==
    startGame(room) = IF room.status = "lobby" /\ SeatsFilled(room)
                        THEN Started(room) ELSE room

\* C8 as amended: a lobby.start request is honoured only in a lobby with the
\* required seats occupied, and then leaves the started room (initial position,
\* no winner, end reason or lastMove, seats and selection as they were); a
\* refused or ignored request leaves the room as it was.
C8_StartRequest ==
    [][ last'.op = "lobby.start"
          => IF last'.res.ok
               THEN /\ room.status = "lobby" /\ SeatsFilled(room)
                    /\ room' = Started(room)
               ELSE room' = room
      ]_vars

\* A lobby.start request reached the server during a game and was ignored.
C8_Witness ==
    /\ last = Event("lobby.start", Ignored)
    /\ room.status = "playing" /\ room.lastMove # NoMove

\* C9: assignSeat for an identity that holds a seat returns ok with the colour
\* of that seat and leaves the room as it was, in either mode and any status.
C9_AssignSeatIdempotent ==
    \A p \in Ids \cup {AI}, c \in Colors :
      room.seats[c] = p
        => assignSeat(room, p)
             = [room |-> room, ok |-> TRUE, color |-> c, reason |-> None]

\* p1 holds white and came back after p2 was seated as black: its join found
\* it seated (had p1 been seated after p2, p2 would hold white).
C9_Witness ==
    /\ room.status = "lobby" /\ room.selection.mode = "duo"
    /\ room.seats = [w |-> "p1", b |-> "p2"]
    /\ players = <<"p2", "p1">>
    /\ last = Event("join", Result(TRUE, "w", None))

\* C10: in solo mode the white seat is occupied exactly when the black seat is
\* held by the computer, no human holds the black seat, and assignSeat for an
\* identity other than the white seat's occupant fails with "Room already has
\* a solo player." and leaves the seats as they were.
C10_SoloSeating ==
    room.selection.mode = "solo"
      => /\ room.seats.w # None <=> room.seats.b = AI
         /\ room.seats.b \in {None, AI}
         /\ \A p \in Ids :
              (room.seats.w # None /\ room.seats.w # p)
                => assignSeat(room, p)
                     = [room |-> room, ok |-> FALSE, color |-> None,
                        reason |-> "Room already has a solo player."]

C10_Witness ==
    /\ room.selection.mode = "solo"
    /\ last.op = "join"
    /\ last.res.reason = "Room already has a solo player."
    /\ room.seats.w \in Ids /\ room.seats.b = AI

\* The identity that joined in this step.
Joiner == CHOOSE p \in Ids : p \in Range(players') /\ p \notin Range(players)

\* C11: in duo mode, from empty seats, assignSeat gives white to the first
\* identity, black to the next distinct one and "Room full" to any further
\* distinct one, leaving the room as it was; the two seats never hold the
\* same identity; and a join to a duo lobby seats the newcomer this way.
C11_DuoSeating ==
    /\ [](/\ room.seats.w # None => room.seats.w # room.seats.b
          /\ \A a, b, c \in Ids :
               (a # b /\ c \notin {a, b})
                 => LET r0 == [room EXCEPT !.selection.mode = "duo", !.seats = NoSeats]
                        s1 == assignSeat(r0, a)
                        s2 == assignSeat(s1.room, b)
                        s3 == assignSeat(s2.room, c)
                    IN  /\ s1 = [room |-> [r0 EXCEPT !.seats.w = a], ok |-> TRUE,
                                 color |-> "w", reason |-> None]
                        /\ s2 = [room |-> [r0 EXCEPT !.seats = [w |-> a, b |-> b]],
                                 ok |-> TRUE, color |-> "b", reason |-> None]
                        /\ s3 = [room |-> s2.room, ok |-> FALSE, color |-> None,
                                 reason |-> "Room full"])
    /\ [][ ( /\ last'.op = "join"
             /\ room.selection.mode = "duo" /\ room.status = "lobby"
             /\ Joiner \notin {room.seats.w, room.seats.b} )
           => IF room.seats.w = None
                THEN /\ room' = [room EXCEPT !.seats.w = Joiner]
                     /\ colors'[Joiner] = "w" /\ last'.res.color = "w"
              ELSE IF room.seats.b = None
                THEN /\ room' = [room EXCEPT !.seats.b = Joiner]
                     /\ colors'[Joiner] = "b" /\ last'.res.color = "b"
              ELSE /\ room' = room /\ colors'[Joiner] = None
                   /\ last'.res = Result(FALSE, None, "Room full")
         ]_vars

\* A third identity joined a duo lobby whose seats were both taken.
C11_Witness ==
    /\ room.selection.mode = "duo" /\ room.status = "lobby"
    /\ last = Event("join", Result(FALSE, None, "Room full"))
    /\ room.seats.w \in Ids /\ room.seats.b \in Ids
    /\ Len(players) = 3

Leaver == CHOOSE p \in Ids : p \in Range(players) /\ p \notin Range(players')

\* The room is set up for a new game: back in the lobby or playing, on the
\* initial position, with the outcome cleared.
Fresh(r) ==
    /\ r.status \in {"lobby", "playing"}
    /\ r.chess = NewChess
    /\ r.winner = None /\ r.endReason = None /\ r.lastMove = NoMove

C15_EndedConsistent ==
    room.status = "ended"
      => LET c == room.chess
             blank == [room EXCEPT !.winner = None, !.endReason = None]
         IN  /\ room.endReason # None
             /\ room.winner # None <=> room.endReason = "checkmate"
             /\ IF Terminal(c)
                  THEN room = Classified(blank, IsCheckmate(c), IsStalemate(c),
                                         IsInsufficientMaterial(c),
                                         IsThreefoldRepetition(c), IsDraw(c), Turn(c))
                  ELSE /\ room.endReason = "opponent disconnected"
                       /\ room.winner = None
                       /\ room.selection.mode = "duo"

\* A match ended in stalemate, without a winner.
C15_Witness ==
    /\ room.status = "ended"
    /\ IsStalemate(room.chess)
    /\ room.endReason = "stalemate" /\ room.winner = None
    /\ last.op = "game.move" /\ last.res.ok

\* The moves of the position c that checkmate at once.
MatingMoves(c) == {m \in Moves(c) : IsCheckmate(Make(c, m))}

\* C16: at every position where the side to move has a move that checkmates
\* at once, chooseAiMove for that side at medium and at hard returns, for
\* every order of the moves, a move that checkmates at once.
C16_MateInOneChosen ==
    \A difficulty \in {"medium", "hard"} :
      LET c == LoadFen(Fen(room.chess)) IN
      (~IsGameOver(c) /\ MatingMoves(c) # {})
        => chooseAiMove(Fen(room.chess), Turn(c), difficulty)
             \subseteq {MoveString(m) : m \in MatingMoves(c)}

\* The legal moves of the position c in the form from + to (+ promotion).
LegalStrings(c) == {MoveString(m) : m \in Moves(c)}

\* C17: chooseAiMove returns null when the position it is given is over or
\* the side to move is not the computer's colour; otherwise, at every
\* difficulty and for every order of the moves, it returns the string from +
\* to (+ promotion piece) of a legal move of the position, never null.
C17_LegalMoveOrNone ==
    \A aiColor \in Colors, difficulty \in Difficulties :
      LET c == LoadFen(Fen(room.chess))
          chosen == chooseAiMove(Fen(room.chess), aiColor, difficulty)
      IN  /\ chosen # {}
          /\ IF IsGameOver(c) \/ Turn(c) # aiColor
               THEN chosen = {NoMove}
               ELSE /\ chosen \subseteq LegalStrings(c)
                    /\ \A s \in chosen :
                         /\ Len(s) \in {4, 5}
                         /\ Matching(c, Slice(s, 0, 2), Slice(s, 2, 4), Slice(s, 4, 5))
                              # {}

\* The computer, playing black at hard, had a choice of moves and made one.
C17_Witness ==
    /\ last = Event("game.move", Result(TRUE, None, None))
    /\ room.selection.difficulty = "hard"
    /\ room.lastMove \in {<<"a", "6", "a", "5">>, <<"b", "6", "b", "5">>}
    /\ Turn(room.chess) = "w"
    /\ Plies(room.chess) = 1

\* The legal moves of the position c that take a piece.
Captures(c) == {m \in Moves(c) : m.captured}

\* C18: at easy, for either colour and every random pick, chooseAiMove returns
\* one of the captures when the side to move has a capture and some legal move
\* when it has none; and in a solo match at easy, when the human's move leaves
\* a position that is not over and in which black has a capture, applyMove
\* leaves the position after one of black's captures, with that capture as
\* lastMove.
C18_EasyPrefersCaptures ==
    /\ \A aiColor \in Colors :
         LET c == LoadFen(Fen(room.chess))
             chosen == chooseAiMove(Fen(room.chess), aiColor, "easy")
         IN  (~IsGameOver(c) /\ Turn(c) = aiColor)
               => /\ chosen # {}
                  /\ chosen \subseteq
                       {MoveString(m) : m \in (IF Captures(c) # {} THEN Captures(c)
                                               ELSE Moves(c))}
    /\ ( /\ room.selection = [mode |-> "solo", difficulty |-> "easy"]
         /\ room.status = "playing" )
         => \A uci \in Ucis(room.chess) :
              \A mv \in Matching(room.chess, Slice(uci, 0, 2), Slice(uci, 2, 4),
                                 Slice(uci, 4, 5)) :
                LET c1 == Make(room.chess, mv) IN
                (~Terminal(c1) /\ Captures(c1) # {})
                  => \A o \in applyMove(room, room.seats.w, uci) :
                       /\ o.ok
                       /\ \E cap \in Captures(c1) :
                            /\ o.room.chess = Make(c1, cap)
                            /\ o.room.lastMove = MoveString(cap)

\* In a solo match at easy the computer, which could also have brought out
\* its knight, took the pawn with its queen.
C18_Witness ==
    /\ room.selection = [mode |-> "solo", difficulty |-> "easy"]
    /\ last.op = "game.move" /\ last.res.ok
    /\ room.lastMove = <<"d", "8", "d", "5">>
    /\ Turn(room.chess) = "w" /\ room.status = "playing"
    /\ Len(Game[room.chess.node].pieces.w) < Len(Game[InitialNode].pieces.w)

\* C19: in a duo lobby with both seats occupied, a lobby.start request from
\* the identity seated as white leaves the started match (playing, initial
\* position, seats as they were), and a lobby.start request from any other
\* identity is refused with "Only White can start the match." and leaves the
\* room as it was; a connected identity holds the white seat of a lobby
\* exactly when white is the colour recorded for it.
C19_OnlyWhiteStarts ==
    /\ [](room.status = "lobby"
            => \A p \in Range(players) : room.seats.w = p <=> colors[p] = "w")
    /\ [][ \A p \in Ids :
             ( /\ LobbyStart(p)
               /\ room.selection.mode = "duo" /\ room.status = "lobby"
               /\ room.seats.w # None /\ room.seats.b # None )
             => IF room.seats.w = p
                  THEN /\ room' = Started(room)
                       /\ room'.seats = room.seats
                       /\ last' = Event("lobby.start", Result(TRUE, None, "Game start"))
                  ELSE /\ room' = room
                       /\ last' = Event("lobby.start",
                                        Result(FALSE, None,
                                               "Only White can start the match."))
         ]_vars

\* Three players are in a duo lobby with both seats occupied, and a
\* lobby.start request from one who is not white has been refused.
C19_Witness ==
    /\ room.selection.mode = "duo" /\ room.status = "lobby"
    /\ room.seats.w \in Range(players) /\ room.seats.b \in Range(players)
    /\ Len(players) = 3
    /\ last = Event("lobby.start", Result(FALSE, None, "Only White can start the match."))

\* The depths chooseAiMove searches to.
SearchDepths == {searchDepth(d) : d \in Difficulties}

SetMax(S) == CHOOSE x \in S : \A y \in S : y <= x
SetMin(S) == CHOOSE x \in S : \A y \in S : x <= y

\* The plain minimax value of the position c searched to the given depth: the
\* leaf score where the search stops, else the greatest (the side maximized
\* for is to move) or the least of the values of the positions after each move.
RECURSIVE PlainValue(_, _, _)
PlainValue(c, depth, maximizingFor) ==
    IF depth = 0 \/ IsGameOver(c) THEN leafScore(c, maximizingFor)
    ELSE LET values == {PlainValue(Make(c, m), depth - 1, maximizingFor) : m \in Moves(c)}
         IN  IF Turn(c) = maximizingFor THEN SetMax(values) ELSE SetMin(values)

\* C20: at every position, for either colour maximized for, every depth
\* chooseAiMove uses and every order of the moves at every node, minimax with
\* the bounds -Infinity and Infinity returns the plain minimax value of the
\* position and, where the game is not over, a legal move after which the
\* position has that plain minimax value (the maximum when the side maximized
\* for is to move).
C20_AlphaBetaIsMinimax ==
    \A depth \in SearchDepths, maximizingFor \in Colors :
      LET c == room.chess IN
      \A r \in minimax(c, depth, -Infinity, Infinity, maximizingFor) :
        /\ r.score = PlainValue(c, depth, maximizingFor)
        /\ IF IsGameOver(c) THEN r.move = NoMove
           ELSE \E m \in Moves(c) :
                  /\ r.move = MoveString(m)
                  /\ PlainValue(Make(c, m), depth - 1, maximizingFor) = r.score

\* Black is to move in a match at hard, and the search of one of its moves,
\* made after the other move has raised alpha to that move's value, is cut
\* short: it returns a score that is not the plain minimax value of the
\* position it leads to.
C20_Witness ==
    LET c == room.chess
        depth == searchDepth("hard")
    IN  /\ room.selection.difficulty = "hard" /\ room.status = "playing"
        /\ Turn(c) = "b"
        /\ \E m1, m2 \in Moves(c) :
             /\ m1 # m2
             /\ \E r \in minimax(Make(c, m2), depth - 1,
                                 PlainValue(Make(c, m1), depth - 1, "b"), Infinity, "b") :
                  r.score # PlainValue(Make(c, m2), depth - 1, "b")

\* C21: at every position, for every depth chooseAiMove uses, either colour
\* maximized for and every order of the moves at every node, minimax returns
\* with the Chess object as it was given it, the position and the stack of
\* moves made both as at entry, whether the loop ran to its end or was left
\* by a pruning break; and the computer's reply leaves the Match's own
\* position either as it was or with the one move made that applyMove makes
\* of the move chooseAiMove returned.
C21_SearchRestoresPosition ==
    /\ [](\A depth \in SearchDepths, maximizingFor \in Colors :
            LET o == searchObject(Fen(room.chess)) IN
            /\ \A r \in minimaxOn(o, depth, -Infinity, Infinity, maximizingFor) :
                 r.chess = o
            /\ \A m \in Moves(o.position) :
                 LET made == chessMove(o, m) IN
                 \A r \in minimaxOn(made, depth - 1, -Infinity, Infinity, maximizingFor) :
                   r.chess = made /\ Len(r.chess.history) = 1)
    /\ [][Reply =>
            \/ room'.chess = room.chess
            \/ \E m \in Moves(room.chess) :
                 /\ MoveString(m) \in chooseAiMove(Fen(room.chess), "b",
                                                   room.selection.difficulty)
                 /\ room'.chess = Make(room.chess, m)]_vars

\* The computer has replied at hard from a position where the search of one
\* of black's moves, made and taken back inside minimax, was cut short by a
\* pruning break: with alpha raised to the value of another move it returned
\* a score that is not the plain minimax value, and left the object with
\* that one move on its stack.
C21_Witness ==
    /\ room.selection.difficulty = "hard"
    /\ last.op = "game.move" /\ room.lastMove # NoMove
    /\ \E n \in DOMAIN room.chess.count \ {room.chess.node} :
         LET o == searchObject(n)
             depth == searchDepth("hard")
         IN  /\ room.lastMove \in chooseAiMove(n, "b", "hard")
             /\ \E m1, m2 \in Moves(o.position) :
                  /\ m1 # m2
                  /\ \E r \in minimaxOn(chessMove(o, m2), depth - 1,
                                        PlainValue(Make(o.position, m1), depth - 1, "b"),
                                        Infinity, "b") :
                       /\ r.score # PlainValue(Make(o.position, m2), depth - 1, "b")
                       /\ r.chess = chessMove(o, m2)
                       /\ Len(r.chess.history) = 1

\* C22: a match that is playing is ended without a move only by the step in
\* which an identity holding one of its seats leaves the duo room; and when an
\* identity that holds no seat leaves a duo room that is playing, the status,
\* the winner and the end reason stay as they were.
C22_OnlySeatedLeaveEnds ==
    [][ /\ ( /\ room.status = "playing" /\ room'.status = "ended"
             /\ room'.chess = room.chess )
           => /\ last'.op = "leave"
              /\ room.selection.mode = "duo"
              /\ Leaver \in {room.seats.w, room.seats.b}
        /\ ( /\ last'.op = "leave"
             /\ room.selection.mode = "duo" /\ room.status = "playing"
             /\ Leaver \notin {room.seats.w, room.seats.b} )
           => /\ room'.status = room.status
              /\ room'.winner = room.winner
              /\ room'.endReason = room.endReason
      ]_vars

\* C23: in every reachable state each occupied seat is held by the computer
\* sentinel or by a connected identity; so when canStart holds in duo mode
\* both seats are held by connected identities, and a joiner refused with
\* "Room full" finds both seats held by connected identities.
C23_SeatsHeldByConnected ==
    /\ \A c \in Colors : room.seats[c] \in {None, AI} \cup Range(players)
    /\ (room.selection.mode = "duo" /\ canStart(room))
         => {room.seats.w, room.seats.b} \subseteq Range(players)
    /\ last = Event("join", Result(FALSE, None, "Room full"))
         => {room.seats.w, room.seats.b} \subseteq Range(players)

\* C24: in every reachable state, for every connected identity that holds a
\* seat, the colour its snapshot is built for is the colour of its seat.
C24_ViewerColourIsSeatColour ==
    \A p \in Range(players) :
      seatedAs(room, p) # None => viewerColor(colors, p) = seatedAs(room, p)

====
